---- MODULE Spec2Model ----
(***************************************************************************)
(* Model of the urkel tree node primitives of                              *)
(* runtime/src/storage/mkvs/urkel/tree/node.rs: the bit-addressed key      *)
(* algebra (KeyTrait for Key), the value cell (ValuePointer), the node     *)
(* variants (LeafNode, InternalNode) and the node pointer (NodePointer).   *)
(*                                                                         *)
(* Rust values are modelled by value: a Vec<u8> is a sequence of naturals  *)
(* below 256, an Option<T> is a sequence of length 0 (None) or 1 (Some),   *)
(* a struct is a record, and an Rc<RefCell<T>> is the T it holds.  A panic *)
(* is an explicit outcome ([panic |-> TRUE]).  Code indices are 0-based;   *)
(* At and Put translate them.                                              *)
(***************************************************************************)
EXTENDS Integers, Sequences, FiniteSets, TLC

VARIABLES
    k,        \* KeyTrait receiver (self: &Key)
    key_len,  \* declared bit length of k
    k2,       \* second key argument
    k2_len,   \* declared bit length of k2
    node,     \* the NodeBox operated on (root of the object graph)
    pre,      \* history: node as it was before the last operation
    op,       \* name of the last operation applied
    out       \* what the last operation returned

vars == <<k, key_len, k2, k2_len, node, pre, op, out>>

-----------------------------------------------------------------------------
(* Bounds of the model.                                                    *)

\* Longest key, in bytes, given to split / merge / set_bit / get_bit.
MaxKeyBytes == 3
\* Longest key, in bytes, of the small keys given to common_prefix_len.
MaxCplBytes == 2
\* set_bit is tried on bit indices up to this many bits past the buffer.
GrowBits == 9
\* Rounds stamped into nodes are 0..MaxRound.
MaxRound == 1

\* Byte values the keys are built from.
ByteVals == {0, 60, 165, 255}

-----------------------------------------------------------------------------
(* u8 / u16 arithmetic.                                                    *)

\* Depth is u16: a value cast to Depth keeps its low 16 bits.
DepthBits == 16
AsDepth(x) == x % (2 ^ DepthBits)

Bit8(b, j) == (b \div (2 ^ j)) % 2
Or8(a, b) ==
    LET F[j \in 0..8] ==
            IF j = 8 THEN 0
            ELSE (IF Bit8(a, j) = 1 \/ Bit8(b, j) = 1 THEN 2 ^ j ELSE 0) + F[j + 1]
    IN F[0]
And8(a, b) ==
    LET F[j \in 0..8] ==
            IF j = 8 THEN 0
            ELSE (IF Bit8(a, j) = 1 /\ Bit8(b, j) = 1 THEN 2 ^ j ELSE 0) + F[j + 1]
    IN F[0]
Xor8(a, b) ==
    LET F[j \in 0..8] ==
            IF j = 8 THEN 0
            ELSE (IF Bit8(a, j) # Bit8(b, j) THEN 2 ^ j ELSE 0) + F[j + 1]
    IN F[0]
Not8(a) == 255 - a
\* u8 << s and u8 >> s for 0 <= s < 8 (the result stays a u8).
Shl8(b, s) == (b * (2 ^ s)) % 256
Shr8(b, s) == b \div (2 ^ s)
\* u8::leading_zeros
LeadingZeros8(b) ==
    IF b = 0 THEN 8 ELSE 7 - (CHOOSE j \in 0..7 : b \div (2 ^ j) = 1)

\* 0-based access to a Vec<u8>.
At(v, i) == v[i + 1]
Put(v, i, b) == [v EXCEPT ![i + 1] = b]
Zeros(n) == [j \in 1..n |-> 0]

Panic == [panic |-> TRUE]

-----------------------------------------------------------------------------
(* DepthTrait and KeyTrait.                                                *)

\* DepthTrait::to_bytes
ToBytes(d) == IF d % 8 # 0 THEN (d \div 8) + 1 ELSE d \div 8

\* KeyTrait::get_bit; indexing past the buffer panics.
GetBit(self, bit) ==
    IF bit \div 8 >= Len(self) THEN Panic
    ELSE [panic |-> FALSE,
          bit |-> And8(At(self, bit \div 8), 2 ^ (7 - (bit % 8))) # 0]

\* Mutant of SetBit: the mask counts the bit from the low end of the byte.
SetBitLowEndMask(self, bit, val) ==
    LET grown == IF bit >= Len(self) * 8
                 THEN [j \in 1..((bit \div 8) + 1) |->
                          IF j <= Len(self) THEN self[j] ELSE 0]
                 ELSE self
        mask == 2 ^ (bit % 8)
    IN IF val THEN Put(grown, bit \div 8, Or8(At(grown, bit \div 8), mask))
       ELSE Put(grown, bit \div 8, And8(At(grown, bit \div 8), Not8(mask)))

\* KeyTrait::set_bit
SetBit(self, bit, val) ==
    LET grown == IF bit >= Len(self) * 8
                 THEN [j \in 1..((bit \div 8) + 1) |->
                          IF j <= Len(self) THEN self[j] ELSE 0]
                 ELSE self
        mask == 2 ^ (7 - (bit % 8))
    IN IF val THEN Put(grown, bit \div 8, Or8(At(grown, bit \div 8), mask))
       ELSE Put(grown, bit \div 8, And8(At(grown, bit \div 8), Not8(mask)))

\* KeyTrait::bit_length
BitLength(self) == AsDepth(Len(self) * 8)

\* One byte of the suffix computed by the loop of KeyTrait::split.
SplitSuffixByte(self, split_point, i) ==
    LET lft == Shl8(At(self, i + (split_point \div 8)), split_point % 8)
    IN IF split_point % 8 # 0 /\ i + (split_point \div 8) + 1 # Len(self)
       THEN Or8(lft, Shr8(At(self, i + (split_point \div 8) + 1), 8 - (split_point % 8)))
       ELSE lft

\* Mutant of Split: the suffix loop forgets the right chunk of each byte.
SplitNoRightChunk(self, split_point, klen) ==
    IF split_point > klen THEN Panic
    ELSE
      LET prefix_len == ToBytes(split_point)
          suffix_len == ToBytes(klen - split_point)
      IN IF prefix_len > Len(self) \/ suffix_len + (split_point \div 8) > Len(self)
         THEN Panic
         ELSE
           LET copied == SubSeq(self, 1, prefix_len)
               prefix == IF split_point % 8 # 0
                         THEN Put(copied, prefix_len - 1,
                                  And8(At(copied, prefix_len - 1),
                                       Shl8(255, 8 - (split_point % 8))))
                         ELSE copied
               suffix == [j \in 1..suffix_len |->
                             Shl8(At(self, (j - 1) + (split_point \div 8)), split_point % 8)]
           IN [panic |-> FALSE, prefix |-> prefix, suffix |-> suffix]

\* KeyTrait::split.  Slicing or indexing past the end of self panics; the
\* index of the right chunk is within self whenever it is read.
Split(self, split_point, klen) ==
    IF split_point > klen THEN Panic
    ELSE
      LET prefix_len == ToBytes(split_point)
          suffix_len == ToBytes(klen - split_point)
      IN IF prefix_len > Len(self) \/ suffix_len + (split_point \div 8) > Len(self)
         THEN Panic
         ELSE
           LET copied == SubSeq(self, 1, prefix_len)
               prefix == IF split_point % 8 # 0
                         THEN Put(copied, prefix_len - 1,
                                  And8(At(copied, prefix_len - 1),
                                       Shl8(255, 8 - (split_point % 8))))
                         ELSE copied
               suffix == [j \in 1..suffix_len |->
                             SplitSuffixByte(self, split_point, j - 1)]
           IN [panic |-> FALSE, prefix |-> prefix, suffix |-> suffix]

\* The loop of KeyTrait::merge from iteration i on; new_key is the buffer
\* built so far.  The first store is unguarded and panics past the end.
RECURSIVE MergeLoop(_, _, _, _, _)
MergeLoop(new_key, self, klen, other, i) ==
    IF i >= Len(other) THEN [panic |-> FALSE, key |-> new_key]
    ELSE
      LET right == klen % 8 # 0 /\ Len(self) > 0
          ri == Len(self) + i - 1
          li == Len(self) + i
      IN IF right /\ ri >= Len(new_key) THEN Panic
         ELSE
           LET nk1 == IF right
                      THEN Put(new_key, ri,
                               Or8(At(new_key, ri), Shr8(At(other, i), klen % 8)))
                      ELSE new_key
               nk2 == IF li < Len(new_key)
                      THEN Put(nk1, li,
                               Or8(At(nk1, li), Shl8(At(other, i), (8 - (klen % 8)) % 8)))
                      ELSE nk1
           IN MergeLoop(nk2, self, klen, other, i + 1)

\* Mutant of Merge: the left chunk is stored without being shifted.
MergeNoShift(self, klen, other, other_len) ==
    LET n == ToBytes(AsDepth(klen + other_len))
    IN IF Len(self) > n THEN Panic
       ELSE [panic |-> FALSE,
             key |-> [j \in 1..n |->
                         IF j <= Len(self) THEN self[j]
                         ELSE IF j - Len(self) <= Len(other) THEN other[j - Len(self)]
                         ELSE 0]]

\* KeyTrait::merge.  key_len + k2_len is computed in u16.
Merge(self, klen, other, other_len) ==
    LET n == ToBytes(AsDepth(klen + other_len))
    IN IF Len(self) > n THEN Panic
       ELSE MergeLoop([j \in 1..n |-> IF j <= Len(self) THEN self[j] ELSE 0],
                      self, klen, other, 0)

\* KeyTrait::append_bit
AppendBit(self, klen, val) ==
    LET n == ToBytes(AsDepth(klen + 1))
    IN IF Len(self) > n \/ klen \div 8 >= n THEN Panic
       ELSE
         LET new_key == [j \in 1..n |-> IF j <= Len(self) THEN self[j] ELSE 0]
             mask == Shr8(128, klen % 8)
         IN [panic |-> FALSE,
             key |-> IF val
                     THEN Put(new_key, klen \div 8, Or8(At(new_key, klen \div 8), mask))
                     ELSE Put(new_key, klen \div 8,
                              And8(At(new_key, klen \div 8), Not8(mask)))]

\* KeyTrait::common_prefix_len.  i is where the byte-wise scan stops; the
\* bit count is cast to Depth.
CommonPrefixLen(self, key_bit_len, other, k2_bit_len) ==
    LET min_key_len == IF Len(other) < Len(self) THEN Len(other) ELSE Len(self)
        diff == {j \in 0..(min_key_len - 1) : At(self, j) # At(other, j)}
        i == IF diff = {} THEN min_key_len
             ELSE CHOOSE j \in diff : \A l \in diff : j <= l
        whole == AsDepth(i * 8)
        bits == IF i # Len(self) /\ i # Len(other)
                THEN AsDepth(whole + LeadingZeros8(Xor8(At(self, i), At(other, i))))
                ELSE whole
        cap1 == IF bits > key_bit_len THEN key_bit_len ELSE bits
    IN IF cap1 > k2_bit_len THEN k2_bit_len ELSE cap1

-----------------------------------------------------------------------------
(* Inputs of the key algebra.                                              *)

RECURSIVE KeysOfLen(_)
KeysOfLen(n) ==
    IF n = 0 THEN {<<>>}
    ELSE {Append(a, b) : a \in KeysOfLen(n - 1), b \in ByteVals}
\* Every byte buffer of at most n bytes over ByteVals.
Keys(n) == UNION {KeysOfLen(l) : l \in 0..n}
\* The bit lengths a buffer can be declared with: those it is ceil(n/8) bytes for.
BitLens(key) ==
    IF Len(key) = 0 THEN {0} ELSE ((8 * Len(key)) - 7)..(8 * Len(key))
\* key with the bits at positions >= n of its last byte cleared.
MaskKey(key, n) ==
    IF n % 8 # 0 /\ n \div 8 < Len(key)
    THEN Put(key, n \div 8, And8(At(key, n \div 8), Shl8(255, 8 - (n % 8))))
    ELSE key

\* The largest bit length a Depth can hold, and the buffer size it needs.
MaxDepth == (2 ^ DepthBits) - 1

\* Bit i of a buffer (bit 0 is the high bit of byte 0), read off the bytes.
BitOf(key, i) == (key[(i \div 8) + 1] \div (2 ^ (7 - (i % 8)))) % 2
Ceil8(n) == (n + 7) \div 8
MinOf(a, b) == IF a < b THEN a ELSE b
\* Number of leading bit positions below n on which a and b agree.
AgreeLen(a, b, n) ==
    LET diff == {j \in 0..(n - 1) : BitOf(a, j) # BitOf(b, j)}
    IN IF diff = {} THEN n ELSE CHOOSE j \in diff : \A l \in diff : j <= l

\* Values of the variables a specification does not use.
NoKey == <<>>
NoNode == [kind |-> "None"]
NoOut == [panic |-> FALSE]

-----------------------------------------------------------------------------
(* SpecKey: split, merge, set_bit and get_bit applied to one key.          *)

InitKey ==
    /\ k \in Keys(MaxKeyBytes)
    /\ key_len \in BitLens(k)
    /\ k2 = NoKey /\ k2_len = 0
    /\ node = NoNode /\ pre = NoNode
    /\ op = "init" /\ out = NoOut

\* k.split(m, key_len); m one past key_len exercises the panic.
KSplit ==
    /\ op = "init"
    /\ \E m \in 0..(key_len + 1) :
          out' = [m |-> m, split |-> Split(k, m, key_len)]
    /\ op' = "split"
    /\ UNCHANGED <<k, key_len, k2, k2_len, node, pre>>

\* prefix.merge(m, &suffix, key_len - m) on the two halves of a split.
KMerge ==
    /\ op = "split" /\ ~out.split.panic
    /\ out' = [m |-> out.m,
               merged |-> Merge(out.split.prefix, out.m, out.split.suffix, key_len - out.m)]
    /\ op' = "merge"
    /\ UNCHANGED <<k, key_len, k2, k2_len, node, pre>>

\* k.set_bit(i, v)
KSetBit ==
    /\ op = "init"
    /\ \E i \in 0..((8 * Len(k)) + GrowBits), v \in BOOLEAN :
          out' = [i |-> i, v |-> v, key |-> SetBit(k, i, v)]
    /\ op' = "set_bit"
    /\ UNCHANGED <<k, key_len, k2, k2_len, node, pre>>

\* get_bit(i) on the key set_bit returned.
KGetBit ==
    /\ op = "set_bit"
    /\ out' = [i |-> out.i, v |-> out.v, key |-> out.key, got |-> GetBit(out.key, out.i)]
    /\ op' = "get_bit"
    /\ UNCHANGED <<k, key_len, k2, k2_len, node, pre>>

\* Second arguments of merge: buffers of ceil(len / 8) bytes, with and
\* without set bits at positions >= len.
MergeArgs ==
    {[key |-> <<>>, len |-> 0],
     [key |-> <<160>>, len |-> 3],
     [key |-> <<255>>, len |-> 3],
     [key |-> <<165>>, len |-> 8],
     [key |-> <<60, 192>>, len |-> 10],
     [key |-> <<165, 255>>, len |-> 12]}

\* k.merge(key_len, &k2, k2_len) on two keys.
KMergeKeys ==
    /\ op = "init"
    /\ \E a \in MergeArgs :
          /\ k2' = a.key
          /\ k2_len' = a.len
          /\ out' = Merge(k, key_len, a.key, a.len)
    /\ op' = "merge_keys"
    /\ UNCHANGED <<k, key_len, node, pre>>

\* k.append_bit(key_len, v)
KAppendBit ==
    /\ op = "init"
    /\ \E v \in BOOLEAN : out' = [v |-> v, appended |-> AppendBit(k, key_len, v)]
    /\ op' = "append_bit"
    /\ UNCHANGED <<k, key_len, k2, k2_len, node, pre>>

NextKey == KSplit \/ KMerge \/ KSetBit \/ KGetBit \/ KMergeKeys \/ KAppendBit
SpecKey == InitKey /\ [][NextKey]_vars

\* C2: split/merge inverse: for 0 <= m <= n, merging the two halves of
\* k.split(m, n) does not fail, gives ceil(n/8) bytes and agrees with k on
\* every bit below n.
C2_SplitMergeInverse ==
    op = "merge" =>
        /\ ~out.merged.panic
        /\ Len(out.merged.key) = Ceil8(key_len)
        /\ \A i \in 0..(key_len - 1) : BitOf(out.merged.key, i) = BitOf(k, i)

\* Witness of C2: a 3-byte key with set bits, split inside a byte, merged back.
C2_Witness ==
    /\ op = "merge" /\ ~out.merged.panic
    /\ Len(k) = 3 /\ k[2] = 165 /\ k[3] = 255
    /\ out.m % 8 = 3 /\ out.m > 8 /\ key_len % 8 # 0

\* C10: bit round trip: get_bit(set_bit(k, i, v), i) = v, the other bits of
\* k are preserved, and a grown buffer has i div 8 + 1 bytes whose new bits
\* other than i are zero.
C10_BitRoundTrip ==
    op = "get_bit" =>
        /\ ~out.got.panic /\ out.got.bit = out.v
        /\ \A j \in 0..((8 * Len(k)) - 1) :
              j # out.i => BitOf(out.key, j) = BitOf(k, j)
        /\ out.i < 8 * Len(k) => Len(out.key) = Len(k)
        /\ out.i >= 8 * Len(k) =>
              /\ Len(out.key) = (out.i \div 8) + 1
              /\ \A j \in (8 * Len(k))..((8 * Len(out.key)) - 1) :
                    j # out.i => BitOf(out.key, j) = 0

\* Witness of C10: a bit set beyond the end of a non-empty key.
C10_Witness ==
    /\ op = "get_bit" /\ out.v /\ Len(k) = 2 /\ k[1] = 165
    /\ out.i >= (8 * Len(k)) + 8

\* Second witness of C10's case inside the buffer: a set bit cleared.
C10_WitnessClear ==
    /\ op = "get_bit" /\ ~out.v /\ out.i < 8 * Len(k) /\ BitOf(k, out.i) = 1

-----------------------------------------------------------------------------
(* SpecCpl: common_prefix_len applied to two keys whose trailing bits are  *)
(* zero: the small keys, and the longest key a Depth can declare.          *)

InitCpl ==
    /\ \/ \E a \in Keys(MaxCplBytes), b \in Keys(MaxCplBytes) :
             \E n \in BitLens(a), n2 \in BitLens(b) :
                /\ k = MaskKey(a, n) /\ key_len = n
                /\ k2 = MaskKey(b, n2) /\ k2_len = n2
       \/ /\ k = Zeros(ToBytes(MaxDepth)) /\ key_len = MaxDepth
          /\ k2 = Zeros(ToBytes(MaxDepth)) /\ k2_len = MaxDepth
    /\ node = NoNode /\ pre = NoNode
    /\ op = "init" /\ out = NoOut

\* k.common_prefix_len(key_len, &k2, k2_len)
KCommonPrefixLen ==
    /\ op = "init"
    /\ out' = [len |-> CommonPrefixLen(k, key_len, k2, k2_len)]
    /\ op' = "common_prefix_len"
    /\ UNCHANGED <<k, key_len, k2, k2_len, node, pre>>

NextCpl == KCommonPrefixLen
SpecCpl == InitCpl /\ [][NextCpl]_vars

\* C9: common-prefix bound: the result is at most min(n, n2), is n when k2
\* starts with the n bits of k, and is the number of leading bit positions
\* below min(n, n2) on which k and k2 agree.
C9_CommonPrefixBound ==
    op = "common_prefix_len" =>
        /\ out.len <= MinOf(key_len, k2_len)
        /\ (key_len <= k2_len /\ AgreeLen(k, k2, key_len) = key_len) => out.len = key_len
        /\ out.len = AgreeLen(k, k2, MinOf(key_len, k2_len))

\* C9 restricted to keys whose byte count times 8 fits a Depth.
C9_HoldsBelowDepthLimit ==
    (op = "common_prefix_len" /\ 8 * Len(k) <= MaxDepth /\ 8 * Len(k2) <= MaxDepth) =>
        /\ out.len <= MinOf(key_len, k2_len)
        /\ (key_len <= k2_len /\ AgreeLen(k, k2, key_len) = key_len) => out.len = key_len
        /\ out.len = AgreeLen(k, k2, MinOf(key_len, k2_len))

-----------------------------------------------------------------------------
(* Hashing.  A Hash is a fixed-width digest, here a natural below 65521    *)
(* written on two bytes; Digest is a polynomial hash of the byte string.   *)

\* Hash::digest_bytes
RECURSIVE Digest(_)
Digest(bytes) ==
    IF Len(bytes) = 0 THEN 7
    ELSE ((Digest(SubSeq(bytes, 1, Len(bytes) - 1)) * 31) + bytes[Len(bytes)] + 1) % 65521
\* Hash::as_ref: the bytes of a hash, of fixed width.
HashBytes(h) == <<h \div 256, h % 256>>
\* Hash::empty_hash: the digest of the empty byte string.
EmptyHash == Digest(<<>>)
\* Hash::default(): all bytes zero; it is not the empty hash.
ZeroHash == 0
\* Hash::is_empty
HashIsEmpty(h) == h = EmptyHash

\* The n-byte big-endian encoding of x.
RECURSIVE BigEndian(_, _)
BigEndian(x, n) ==
    IF n = 0 THEN <<>> ELSE Append(BigEndian(x \div 256, n - 1), x % 256)
\* u64::marshal_binary and Depth::marshal_binary.
MarshalU64(x) == BigEndian(x, 8)
MarshalDepth(x) == BigEndian(x, 2)

\* NodeKind as u8
KindInternal == <<1>>
KindLeaf == <<0>>

-----------------------------------------------------------------------------
(* ValuePointer.                                                           *)

\* The hash ValuePointer::update_hash computes for a value.
ValueHash(value) == IF value = <<>> THEN EmptyHash ELSE Digest(value[1])

\* ValuePointer::update_hash
ValUpdateHash(self) == [self EXCEPT !.hash = ValueHash(self.value)]

\* ValuePointer::validate
ValValidate(self, hash) ==
    LET upd == ValUpdateHash(self)
    IN [val |-> upd,
        res |-> IF upd.hash # hash
                THEN [err |-> "HashMismatch", expected_hash |-> hash,
                      computed_hash |-> upd.hash]
                ELSE [err |-> "Ok"]]

\* ValuePointer::extract
ValExtract(self) ==
    IF ~self.clean THEN Panic
    ELSE [panic |-> FALSE,
          ret |-> [clean |-> TRUE, hash |-> self.hash, value |-> self.value,
                   cache_extra |-> 0]]

\* ValuePointer::copy
ValCopy(self) ==
    [clean |-> TRUE, hash |-> self.hash, value |-> self.value, cache_extra |-> 0]

\* impl PartialEq for ValuePointer
ValEq(self, other) ==
    IF self.clean /\ other.clean THEN self.hash = other.hash
    ELSE self.value # <<>> /\ self.value = other.value

-----------------------------------------------------------------------------
(* LeafNode.                                                               *)

\* The preimage hash of a leaf (the digest LeafNode::update_hash stores).
LeafPreimageHash(self) ==
    Digest(KindLeaf \o MarshalU64(self.round) \o self.key \o HashBytes(self.value.hash))

\* LeafNode::update_hash
LeafUpdateHash(self) == [self EXCEPT !.hash = LeafPreimageHash(self)]

\* LeafNode::copy
LeafCopy(self) ==
    [kind |-> "Leaf", clean |-> self.clean, round |-> self.round, hash |-> self.hash,
     key |-> self.key, value |-> ValCopy(self.value)]

\* Mutant of LeafValidate: the recomputed hash is stored only when it matches.
LeafValidateStoresOnMatch(self, h) ==
    IF ~self.value.clean THEN [node |-> self, res |-> [err |-> "DirtyValue"]]
    ELSE LET upd == LeafUpdateHash(self)
         IN IF upd.hash # h
            THEN [node |-> self,
                  res |-> [err |-> "HashMismatch", expected_hash |-> h,
                           computed_hash |-> upd.hash]]
            ELSE [node |-> upd, res |-> [err |-> "Ok"]]

\* LeafNode::validate
LeafValidate(self, h) ==
    IF ~self.value.clean THEN [node |-> self, res |-> [err |-> "DirtyValue"]]
    ELSE LET upd == LeafUpdateHash(self)
         IN [node |-> upd,
             res |-> IF upd.hash # h
                     THEN [err |-> "HashMismatch", expected_hash |-> h,
                           computed_hash |-> upd.hash]
                     ELSE [err |-> "Ok"]]

\* LeafNode::extract
LeafExtract(self) ==
    IF ~self.clean THEN Panic
    ELSE LET v == ValExtract(self.value)
         IN IF v.panic THEN Panic
            ELSE [panic |-> FALSE,
                  ret |-> [kind |-> "Leaf", clean |-> TRUE, round |-> self.round,
                           hash |-> self.hash, key |-> self.key, value |-> v.ret]]

-----------------------------------------------------------------------------
(* NodePointer.                                                            *)

\* Mutant of PtrNull: the hash is left to Default::default().
PtrNullDefaultHash ==
    [clean |-> TRUE, hash |-> ZeroHash, node |-> <<>>, cache_extra |-> 0]

\* NodePointer::null_ptr
PtrNull == [clean |-> TRUE, hash |-> EmptyHash, node |-> <<>>, cache_extra |-> 0]

\* NodePointer::is_null
PtrIsNull(self) == HashIsEmpty(self.hash)

\* NodePointer::has_node
PtrHasNode(self) == ~PtrIsNull(self) /\ ~(self.node = <<>>)

\* NodePointer::get_node
PtrGetNode(self) ==
    IF self.node = <<>> THEN Panic ELSE [panic |-> FALSE, ret |-> self.node[1]]

\* NodePointer::extract
PtrExtract(self) ==
    IF ~self.clean THEN Panic
    ELSE [panic |-> FALSE,
          ret |-> [clean |-> TRUE, hash |-> self.hash, node |-> <<>>, cache_extra |-> 0]]

\* NodePointer::copy_leaf_ptr; noderef_as!(.., Leaf) panics on an internal node.
PtrCopyLeafPtr(self) ==
    IF ~PtrHasNode(self) THEN [panic |-> FALSE, ret |-> PtrNull]
    ELSE IF ~self.clean THEN Panic
    ELSE IF self.node # <<>>
         THEN IF self.node[1].kind # "Leaf" THEN Panic
              ELSE [panic |-> FALSE,
                    ret |-> [clean |-> TRUE, hash |-> self.hash,
                             node |-> <<LeafCopy(self.node[1])>>, cache_extra |-> 0]]
         ELSE Panic

-----------------------------------------------------------------------------
(* InternalNode.                                                           *)

\* Mutant of InternalPreimageHash: a dirty left pointer contributes the
\* default hash instead of the hash it carries.
InternalPreimageHashDirtyLeftZero(self) ==
    Digest(KindInternal \o MarshalU64(self.round) \o MarshalDepth(self.label_bit_length)
           \o self.label \o HashBytes(self.leaf_node.hash)
           \o HashBytes(IF self.left.clean THEN self.left.hash ELSE ZeroHash)
           \o HashBytes(self.right.hash))

\* The preimage hash of an internal node (what InternalNode::update_hash stores).
InternalPreimageHash(self) ==
    Digest(KindInternal \o MarshalU64(self.round) \o MarshalDepth(self.label_bit_length)
           \o self.label \o HashBytes(self.leaf_node.hash) \o HashBytes(self.left.hash)
           \o HashBytes(self.right.hash))

\* InternalNode::update_hash
InternalUpdateHash(self) == [self EXCEPT !.hash = InternalPreimageHash(self)]

\* Mutant of InternalValidate: the left pointer's clean flag is not looked at.
InternalValidateSkipLeft(self, h) ==
    IF ~self.leaf_node.clean \/ ~self.right.clean
    THEN [node |-> self, res |-> [err |-> "DirtyPointers"]]
    ELSE LET upd == InternalUpdateHash(self)
         IN [node |-> upd,
             res |-> IF upd.hash # h
                     THEN [err |-> "HashMismatch", expected_hash |-> h,
                           computed_hash |-> upd.hash]
                     ELSE [err |-> "Ok"]]

\* InternalNode::validate
InternalValidate(self, h) ==
    IF ~self.leaf_node.clean \/ ~self.left.clean \/ ~self.right.clean
    THEN [node |-> self, res |-> [err |-> "DirtyPointers"]]
    ELSE LET upd == InternalUpdateHash(self)
         IN [node |-> upd,
             res |-> IF upd.hash # h
                     THEN [err |-> "HashMismatch", expected_hash |-> h,
                           computed_hash |-> upd.hash]
                     ELSE [err |-> "Ok"]]

\* InternalNode::extract
InternalExtract(self) ==
    IF ~self.clean THEN Panic
    ELSE LET lf == PtrCopyLeafPtr(self.leaf_node)
             l == PtrExtract(self.left)
             r == PtrExtract(self.right)
         IN IF lf.panic \/ l.panic \/ r.panic THEN Panic
            ELSE [panic |-> FALSE,
                  ret |-> [kind |-> "Internal", clean |-> TRUE, round |-> self.round,
                           hash |-> self.hash, label |-> self.label,
                           label_bit_length |-> self.label_bit_length,
                           leaf_node |-> lf.ret, left |-> l.ret, right |-> r.ret]]

-----------------------------------------------------------------------------
(* NodeBox: dispatch on the variant.                                       *)

\* impl Node for NodeBox: is_clean, get_hash
NodeIsClean(n) == n.clean
NodeGetHash(n) == n.hash
\* The hash update_hash would store in the node.
NodePreimageHash(n) ==
    IF n.kind = "Internal" THEN InternalPreimageHash(n) ELSE LeafPreimageHash(n)
\* impl Node for NodeBox: update_hash
NodeUpdateHash(n) ==
    IF n.kind = "Internal" THEN InternalUpdateHash(n) ELSE LeafUpdateHash(n)
\* impl Node for NodeBox: validate
NodeValidate(n, h) ==
    IF n.kind = "Internal" THEN InternalValidate(n, h) ELSE LeafValidate(n, h)
\* impl Node for NodeBox: extract
NodeExtract(n) ==
    IF n.kind = "Internal" THEN InternalExtract(n) ELSE LeafExtract(n)

-----------------------------------------------------------------------------
(* Equality of leaves, internal nodes, node boxes and pointers.            *)

\* impl PartialEq for LeafNode
LeafEq(self, other) ==
    IF self.clean /\ other.clean THEN self.hash = other.hash
    ELSE self.round = other.round /\ self.key = other.key
         /\ ValEq(self.value, other.value)

RECURSIVE PtrEq(_, _), InternalEq(_, _), NodeBoxEq(_, _)

\* Mutant of PtrEq: a missing node on the left is not ruled out.
PtrEqNoneEqualsNone(self, other) ==
    IF self.clean /\ other.clean THEN self.hash = other.hash
    ELSE IF self.node = <<>> \/ other.node = <<>> THEN self.node = other.node
         ELSE NodeBoxEq(self.node[1], other.node[1])

\* impl PartialEq for NodePointer; Option<NodeRef> equality is None = None,
\* or both Some with equal node boxes.
PtrEq(self, other) ==
    IF self.clean /\ other.clean THEN self.hash = other.hash
    ELSE /\ self.node # <<>>
         /\ other.node # <<>>
         /\ NodeBoxEq(self.node[1], other.node[1])

\* impl PartialEq for InternalNode
InternalEq(self, other) ==
    IF self.clean /\ other.clean THEN self.hash = other.hash
    ELSE /\ self.round = other.round
         /\ PtrEq(self.leaf_node, other.leaf_node)
         /\ PtrEq(self.left, other.left)
         /\ PtrEq(self.right, other.right)

\* #[derive(PartialEq)] for NodeBox: same variant and equal contents.
NodeBoxEq(a, b) ==
    IF a.kind # b.kind THEN FALSE
    ELSE IF a.kind = "Internal" THEN InternalEq(a, b)
    ELSE LeafEq(a, b)

-----------------------------------------------------------------------------
(* Inputs of the node operations: value cells, leaves, pointers and        *)
(* internal nodes in every state the pointer table and the clean flags     *)
(* allow.  A clean value cell carries the hash of its value.               *)

Rounds == 0..MaxRound
ValueOpts == {<<>>, <<<<1, 2>>>>, <<<<3>>>>}
LeafKeys == {<<>>, <<165>>}
\* label and label_bit_length of the internal nodes.
Labels == {[label |-> <<128>>, bits |-> 1], [label |-> <<165, 192>>, bits |-> 10]}

ValCells ==
    {c \in [clean : BOOLEAN, hash : {ZeroHash} \cup {ValueHash(v) : v \in ValueOpts},
            value : ValueOpts, cache_extra : {0, 1}] :
        /\ c.hash \in {ZeroHash, ValueHash(c.value)}
        /\ c.clean => c.hash = ValueHash(c.value)}

\* A leaf with the given fields; stale leaves the hash at Hash::default().
MkLeaf(clean, round, key, value, stale) ==
    LET n == [kind |-> "Leaf", clean |-> clean, round |-> round, hash |-> ZeroHash,
              key |-> key, value |-> value]
    IN IF stale THEN n ELSE LeafUpdateHash(n)

LeafPool ==
    {MkLeaf(c, r, key, v, st) :
        c \in BOOLEAN, r \in Rounds, key \in LeafKeys, v \in ValCells, st \in BOOLEAN}

MkPtr(clean, hash, n) == [clean |-> clean, hash |-> hash, node |-> n, cache_extra |-> 0]

\* Node bodies found under the pointers of an internal node.
CleanLeafA ==
    MkLeaf(TRUE, 0, <<165>>,
           [clean |-> TRUE, hash |-> ValueHash(<<<<1, 2>>>>), value |-> <<<<1, 2>>>>,
            cache_extra |-> 1], FALSE)
CleanLeafB ==
    MkLeaf(TRUE, 0, <<>>,
           [clean |-> TRUE, hash |-> EmptyHash, value |-> <<>>, cache_extra |-> 0], FALSE)
DirtyLeaf ==
    MkLeaf(FALSE, 0, <<165>>,
           [clean |-> FALSE, hash |-> ZeroHash, value |-> <<<<3>>>>, cache_extra |-> 0], TRUE)
DirtyLeafNoValue ==
    MkLeaf(FALSE, 0, <<165>>,
           [clean |-> FALSE, hash |-> EmptyHash, value |-> <<>>, cache_extra |-> 0], TRUE)
CleanInternal ==
    InternalUpdateHash(
        [kind |-> "Internal", clean |-> TRUE, round |-> 0, hash |-> ZeroHash,
         label |-> <<128>>, label_bit_length |-> 1, leaf_node |-> PtrNull,
         left |-> MkPtr(TRUE, CleanLeafA.hash, <<>>),
         right |-> MkPtr(TRUE, CleanLeafB.hash, <<>>)])

\* Pointers found in left and right: null, unresolved (clean and dirty) and
\* resolved (clean and dirty, to a leaf or to an internal node).
ChildPtrPool ==
    {PtrNull,
     MkPtr(TRUE, CleanLeafA.hash, <<>>),
     MkPtr(FALSE, ZeroHash, <<>>),
     MkPtr(TRUE, CleanLeafA.hash, <<CleanLeafA>>),
     MkPtr(FALSE, CleanLeafA.hash, <<CleanLeafA>>),
     MkPtr(FALSE, ZeroHash, <<DirtyLeafNoValue>>),
     MkPtr(TRUE, CleanInternal.hash, <<CleanInternal>>)}

\* Pointers found in leaf_node.
LeafPtrPool ==
    ChildPtrPool \cup
    {MkPtr(FALSE, EmptyHash, <<>>),
     MkPtr(TRUE, CleanLeafB.hash, <<CleanLeafB>>),
     MkPtr(FALSE, ZeroHash, <<DirtyLeaf>>)}

MkInternal(clean, round, lb, lf, l, r, stale) ==
    LET n == [kind |-> "Internal", clean |-> clean, round |-> round, hash |-> ZeroHash,
              label |-> lb.label, label_bit_length |-> lb.bits,
              leaf_node |-> lf, left |-> l, right |-> r]
    IN IF stale THEN n ELSE InternalUpdateHash(n)

InternalPool ==
    {MkInternal(c, r, lb, lf, lp, rp, st) :
        c \in BOOLEAN, r \in Rounds, lb \in Labels, lf \in LeafPtrPool,
        lp \in ChildPtrPool, rp \in ChildPtrPool, st \in BOOLEAN}

PtrFields == {"leaf_node", "left", "right"}
PtrOps == {"null_ptr", "ptr_extract", "copy_leaf_ptr"}

\* The hashes validate is called with: the preimage hash, the stored hash
\* and two hashes that match neither.
ExpectedHashes(n) == {NodePreimageHash(n), n.hash, ZeroHash, EmptyHash}

-----------------------------------------------------------------------------
(* Spec: the operations of Node, NodePointer and ValuePointer applied to   *)
(* one node box, to its pointers and to its value cell.                    *)

Init ==
    /\ \/ node \in LeafPool
       \/ node \in InternalPool
    /\ pre = node
    /\ k = NoKey /\ key_len = 0 /\ k2 = NoKey /\ k2_len = 0
    /\ op = "init" /\ out = NoOut

\* node.extract()
NExtract ==
    /\ op = "init"
    /\ out' = [r |-> NodeExtract(node)]
    /\ op' = "extract"
    /\ pre' = node
    /\ UNCHANGED <<node, k, key_len, k2, k2_len>>

\* validate(node.hash) on the node extract returned.
NValidateExtracted ==
    /\ op = "extract" /\ ~out.r.panic
    /\ LET v == NodeValidate(out.r.ret, node.hash)
       IN out' = [extracted |-> out.r.ret, after |-> v.node, res |-> v.res]
    /\ op' = "extract_validate"
    /\ UNCHANGED <<node, pre, k, key_len, k2, k2_len>>

\* node.validate(h)
NValidate ==
    /\ op = "init"
    /\ \E h \in ExpectedHashes(node) :
          LET v == NodeValidate(node, h)
          IN /\ node' = v.node
             /\ out' = [h |-> h, res |-> v.res]
    /\ op' = "validate"
    /\ pre' = node
    /\ UNCHANGED <<k, key_len, k2, k2_len>>

\* node.update_hash()
NUpdateHash ==
    /\ op = "init"
    /\ node' = NodeUpdateHash(node)
    /\ out' = NoOut
    /\ op' = "update_hash"
    /\ pre' = node
    /\ UNCHANGED <<k, key_len, k2, k2_len>>

\* NodePointer::null_ptr()
PNullPtr ==
    /\ op = "init"
    /\ out' = [r |-> [panic |-> FALSE, ret |-> PtrNull]]
    /\ op' = "null_ptr"
    /\ UNCHANGED <<node, pre, k, key_len, k2, k2_len>>

\* extract() on one of the pointers of an internal node.
PExtract ==
    /\ op = "init" /\ node.kind = "Internal"
    /\ \E w \in PtrFields : out' = [arg |-> node[w], r |-> PtrExtract(node[w])]
    /\ op' = "ptr_extract"
    /\ UNCHANGED <<node, pre, k, key_len, k2, k2_len>>

\* copy_leaf_ptr() on one of the pointers of an internal node.
PCopyLeafPtr ==
    /\ op = "init" /\ node.kind = "Internal"
    /\ \E w \in PtrFields : out' = [arg |-> node[w], r |-> PtrCopyLeafPtr(node[w])]
    /\ op' = "copy_leaf_ptr"
    /\ UNCHANGED <<node, pre, k, key_len, k2, k2_len>>

\* extract() on a pointer a pointer operation returned.
PExtractReturned ==
    /\ op \in PtrOps /\ ~out.r.panic
    /\ out' = [arg |-> out.r.ret, r |-> PtrExtract(out.r.ret)]
    /\ op' = "ptr_extract"
    /\ UNCHANGED <<node, pre, k, key_len, k2, k2_len>>

\* copy_leaf_ptr() on a pointer a pointer operation returned.
PCopyLeafPtrReturned ==
    /\ op \in PtrOps /\ ~out.r.panic
    /\ out' = [arg |-> out.r.ret, r |-> PtrCopyLeafPtr(out.r.ret)]
    /\ op' = "copy_leaf_ptr"
    /\ UNCHANGED <<node, pre, k, key_len, k2, k2_len>>

\* a == b on two pointers of an internal node.
PEq ==
    /\ op = "init" /\ node.kind = "Internal"
    /\ \E w1 \in PtrFields, w2 \in PtrFields :
          /\ w1 # w2
          /\ out' = [a |-> node[w1], b |-> node[w2], eq |-> PtrEq(node[w1], node[w2])]
    /\ op' = "ptr_eq"
    /\ UNCHANGED <<node, pre, k, key_len, k2, k2_len>>

\* extract() on the value cell of a leaf.
VExtract ==
    /\ op = "init" /\ node.kind = "Leaf"
    /\ out' = [arg |-> node.value, r |-> ValExtract(node.value)]
    /\ op' = "val_extract"
    /\ UNCHANGED <<node, pre, k, key_len, k2, k2_len>>

\* copy() on the value cell of a leaf.
VCopy ==
    /\ op = "init" /\ node.kind = "Leaf"
    /\ out' = [arg |-> node.value, r |-> [panic |-> FALSE, ret |-> ValCopy(node.value)]]
    /\ op' = "val_copy"
    /\ UNCHANGED <<node, pre, k, key_len, k2, k2_len>>

\* LeafNode::copy on a leaf.
LCopy ==
    /\ op = "init" /\ node.kind = "Leaf"
    /\ out' = [r |-> [panic |-> FALSE, ret |-> LeafCopy(node)]]
    /\ op' = "leaf_copy"
    /\ UNCHANGED <<node, pre, k, key_len, k2, k2_len>>

\* validate(h) on the value cell of a leaf.
VValidate ==
    /\ op = "init" /\ node.kind = "Leaf"
    /\ \E h \in {ValueHash(node.value.value), node.value.hash, ZeroHash, EmptyHash} :
          LET v == ValValidate(node.value, h)
          IN /\ node' = [node EXCEPT !.value = v.val]
             /\ out' = [h |-> h, res |-> v.res]
    /\ op' = "val_validate"
    /\ pre' = node
    /\ UNCHANGED <<k, key_len, k2, k2_len>>

Next ==
    \/ NExtract \/ NValidateExtracted \/ NValidate \/ NUpdateHash
    \/ PNullPtr \/ PExtract \/ PCopyLeafPtr \/ PExtractReturned \/ PCopyLeafPtrReturned
    \/ PEq \/ VExtract \/ VCopy \/ LCopy \/ VValidate

Spec == Init /\ [][Next]_vars

-----------------------------------------------------------------------------
(* Claims about extract, validate, copy and pointer equality (Spec).       *)

\* The three pointers of an internal node are clean.
ChildPtrsClean(n) == n.leaf_node.clean /\ n.left.clean /\ n.right.clean
\* Pointer states of the pointer table.
IsNullPtr(p) == p.hash = EmptyHash /\ p.node = <<>>
IsUnresolvedPtr(p) == p.hash # EmptyHash /\ p.node = <<>>
IsResolvedToCleanLeaf(p) ==
    p.hash # EmptyHash /\ p.node # <<>> /\ p.node[1].kind = "Leaf" /\ p.node[1].clean
\* A pointer whose hash is the empty hash carries no node, and has_node
\* holds only of a non-empty hash with a node.
NullInv(p) ==
    /\ p.hash = EmptyHash => p.node = <<>>
    /\ PtrHasNode(p) => (p.hash # EmptyHash /\ p.node # <<>>)

\* C1: extract-then-validate: for a clean leaf or internal node whose hash
\* is its preimage hash and whose child pointers are clean (leaf_node null,
\* unresolved or resolved to a clean leaf), validate(N.hash) on the node
\* N.extract() returned is Ok.
C1_ExtractThenValidate ==
    (/\ op = "extract_validate"
     /\ node.clean /\ node.hash = NodePreimageHash(node)
     /\ node.kind = "Internal" =>
           /\ ChildPtrsClean(node)
           /\ \/ IsNullPtr(node.leaf_node)
              \/ IsUnresolvedPtr(node.leaf_node)
              \/ IsResolvedToCleanLeaf(node.leaf_node))
    => out.res.err = "Ok"

\* C1 with the unresolved leaf_node pointer left out: there it holds.
C1_HoldsUnlessLeafPtrUnresolved ==
    (/\ op = "extract_validate"
     /\ node.clean /\ node.hash = NodePreimageHash(node)
     /\ node.kind = "Internal" =>
           /\ ChildPtrsClean(node)
           /\ \/ IsNullPtr(node.leaf_node)
              \/ IsResolvedToCleanLeaf(node.leaf_node))
    => out.res.err = "Ok"

\* C3 as stated: two clean pointers are equal iff their hashes are, and a
\* clean pointer never equals a dirty pointer whose node body has the same
\* content.
C3_CleanNeverEqualsDirtySameContent ==
    op = "ptr_eq" =>
        /\ (out.a.clean /\ out.b.clean) => (out.eq <=> out.a.hash = out.b.hash)
        /\ (out.a.clean # out.b.clean /\ out.a.node # <<>> /\ out.a.node = out.b.node)
              => ~out.eq

\* C3 as amended: two clean pointers are equal iff their hashes are; a clean
\* and a dirty pointer are equal (in either order) iff both carry a node and
\* the node bodies compare equal, so they are equal when the bodies have the
\* same content and are clean, and never equal when either has no node.
C3_PointerEquality ==
    op = "ptr_eq" =>
        /\ (out.a.clean /\ out.b.clean) => (out.eq <=> out.a.hash = out.b.hash)
        /\ (out.a.clean # out.b.clean) =>
              (out.eq <=> (/\ out.a.node # <<>> /\ out.b.node # <<>>
                           /\ NodeBoxEq(out.a.node[1], out.b.node[1])))
        /\ (/\ out.a.clean # out.b.clean
            /\ out.a.node # <<>> /\ out.a.node = out.b.node /\ out.a.node[1].clean)
              => out.eq
        /\ (out.a.clean # out.b.clean /\ (out.a.node = <<>> \/ out.b.node = <<>>))
              => ~out.eq

\* Witness of C3: a clean pointer equal to a dirty pointer with the same body.
C3_Witness ==
    /\ op = "ptr_eq" /\ out.a.clean /\ ~out.b.clean
    /\ out.a.node # <<>> /\ out.a.node = out.b.node /\ out.eq

\* C4: dirty rejection: extract on a dirty node, pointer or value cell
\* aborts, and copy_leaf_ptr on a dirty pointer aborts whether or not the
\* pointer has a node.
C4_DirtyRejected ==
    /\ (op = "extract" /\ ~pre.clean) => out.r.panic
    /\ (op \in {"ptr_extract", "val_extract", "copy_leaf_ptr"} /\ ~out.arg.clean)
          => out.r.panic

\* C4 with copy_leaf_ptr restricted to dirty pointers that have a node.
C4_HoldsWhenDirtyPtrHasNode ==
    /\ (op = "extract" /\ ~pre.clean) => out.r.panic
    /\ (op \in {"ptr_extract", "val_extract"} /\ ~out.arg.clean) => out.r.panic
    /\ (op = "copy_leaf_ptr" /\ ~out.arg.clean /\ PtrHasNode(out.arg)) => out.r.panic

\* C5: value-cell clean invariant: a value cell returned clean by
\* ValuePointer::extract or ValuePointer::copy has hash = digest(value)
\* (empty_hash without a value), whatever the source cell.
C5_CleanValueCellHashMatches ==
    (op \in {"val_extract", "val_copy"} /\ ~out.r.panic /\ out.r.ret.clean)
        => out.r.ret.hash = ValueHash(out.r.ret.value)

\* C5 for extract alone, and for copy of a clean source cell.
C5_HoldsForCleanSource ==
    (op \in {"val_extract", "val_copy"} /\ ~out.r.panic /\ out.r.ret.clean
     /\ out.arg.clean)
        => out.r.ret.hash = ValueHash(out.r.ret.value)

\* C6: outcome of validate(expected): DirtyPointers iff a pointer of the
\* internal node is dirty, DirtyValue iff the value cell of the leaf is
\* dirty, otherwise Ok if the recomputed hash is the expected one and
\* HashMismatch{expected, recomputed} if not.
C6_ValidateOutcome ==
    op = "validate" =>
        LET dirty == IF pre.kind = "Internal" THEN ~ChildPtrsClean(pre)
                     ELSE ~pre.value.clean
            recomputed == NodePreimageHash(pre)
        IN /\ out.res.err = "DirtyPointers" <=> (pre.kind = "Internal" /\ dirty)
           /\ out.res.err = "DirtyValue" <=> (pre.kind = "Leaf" /\ dirty)
           /\ ~dirty =>
                 IF recomputed = out.h THEN out.res = [err |-> "Ok"]
                 ELSE out.res = [err |-> "HashMismatch", expected_hash |-> out.h,
                                 computed_hash |-> recomputed]

\* Witness of C6: only the left pointer is dirty, its body is never looked
\* at, and validate fails with DirtyPointers.
C6_Witness ==
    /\ op = "validate" /\ pre.kind = "Internal"
    /\ pre.leaf_node.clean /\ ~pre.left.clean /\ pre.right.clean
    /\ out.h = NodePreimageHash(pre)
    /\ out.res.err = "DirtyPointers"

\* C7: extract of a clean internal node with clean child pointers is a
\* clean internal node with the same round, label, label_bit_length and
\* hash, hash-only clean left and right pointers with the hashes of N's, and
\* a leaf_node pointer with the hash of N.leaf_node; N is unchanged.
C7_ExtractSkeleton ==
    (/\ op = "extract" /\ pre.kind = "Internal" /\ pre.clean /\ ChildPtrsClean(pre)
     /\ (pre.leaf_node.node = <<>> \/ pre.leaf_node.node[1].kind = "Leaf"))
    => /\ ~out.r.panic
       /\ out.r.ret.kind = "Internal" /\ out.r.ret.clean
       /\ out.r.ret.round = pre.round /\ out.r.ret.hash = pre.hash
       /\ out.r.ret.label = pre.label
       /\ out.r.ret.label_bit_length = pre.label_bit_length
       /\ out.r.ret.left.clean /\ out.r.ret.left.node = <<>>
       /\ out.r.ret.left.hash = pre.left.hash
       /\ out.r.ret.right.clean /\ out.r.ret.right.node = <<>>
       /\ out.r.ret.right.hash = pre.right.hash
       /\ out.r.ret.leaf_node.hash = pre.leaf_node.hash
       /\ node = pre

\* C7 with the unresolved leaf_node pointer left out: there it holds.
C7_HoldsUnlessLeafPtrUnresolved ==
    (/\ op = "extract" /\ pre.kind = "Internal" /\ pre.clean /\ ChildPtrsClean(pre)
     /\ (pre.leaf_node.node = <<>> \/ pre.leaf_node.node[1].kind = "Leaf")
     /\ ~IsUnresolvedPtr(pre.leaf_node))
    => /\ ~out.r.panic
       /\ out.r.ret.kind = "Internal" /\ out.r.ret.clean
       /\ out.r.ret.round = pre.round /\ out.r.ret.hash = pre.hash
       /\ out.r.ret.label = pre.label
       /\ out.r.ret.label_bit_length = pre.label_bit_length
       /\ out.r.ret.left.clean /\ out.r.ret.left.node = <<>>
       /\ out.r.ret.left.hash = pre.left.hash
       /\ out.r.ret.right.clean /\ out.r.ret.right.node = <<>>
       /\ out.r.ret.right.hash = pre.right.hash
       /\ out.r.ret.leaf_node.hash = pre.leaf_node.hash
       /\ node = pre

\* C8: null-pointer invariant: null_ptr() is a clean pointer with the empty
\* hash, no node and is_null(); and every pointer returned by null_ptr,
\* extract and copy_leaf_ptr, applied in any sequence to pointers that
\* satisfy NullInv, satisfies NullInv.
C8_NullPointerInvariant ==
    /\ op = "null_ptr" =>
          /\ out.r.ret.clean /\ out.r.ret.hash = EmptyHash /\ out.r.ret.node = <<>>
          /\ PtrIsNull(out.r.ret) /\ ~PtrHasNode(out.r.ret)
    /\ (op \in PtrOps /\ ~out.r.panic) => NullInv(out.r.ret)

\* The pointers the operations are given satisfy NullInv.
PtrInputsSatisfyNullInv ==
    op \in {"ptr_extract", "copy_leaf_ptr"} => NullInv(out.arg)

\* Witness of C8: copy_leaf_ptr returned a pointer that carries a node.
C8_Witness ==
    /\ op = "copy_leaf_ptr" /\ ~out.r.panic
    /\ PtrHasNode(out.r.ret) /\ out.r.ret.node[1].kind = "Leaf"
    /\ out.r.ret.hash = out.arg.hash

-----------------------------------------------------------------------------
(* SpecPair: operations on two node bodies, the node and a second body of  *)
(* the same variant built from it.                                          *)

\* The pointers of pool that carry the hash of p.
SameHashPtrs(pool, p) == {q \in pool : q.hash = p.hash}

\* The bodies of the variant of n that carry the fields update_hash reads
\* from n: any clean flag, any stored hash, and under each pointer (or in
\* the value cell) anything with the same hash.
SameHashFieldBodies(n) ==
    IF n.kind = "Internal"
    THEN {[n EXCEPT !.clean = c, !.hash = h, !.leaf_node = lf, !.left = l, !.right = r] :
             c \in BOOLEAN, h \in {ZeroHash, EmptyHash},
             lf \in SameHashPtrs(LeafPtrPool, n.leaf_node),
             l \in SameHashPtrs(ChildPtrPool, n.left),
             r \in SameHashPtrs(ChildPtrPool, n.right)}
    ELSE {[n EXCEPT !.clean = c, !.hash = h, !.value = v] :
             c \in BOOLEAN, h \in {ZeroHash, EmptyHash},
             v \in {x \in ValCells : x.hash = n.value.hash}}

\* other.update_hash() on a second body, after node.update_hash().
NUpdateHashOther ==
    /\ op = "update_hash"
    /\ \E o \in SameHashFieldBodies(pre) :
          out' = [other |-> o, other_after |-> NodeUpdateHash(o)]
    /\ op' = "update_hash_other"
    /\ UNCHANGED <<node, pre, k, key_len, k2, k2_len>>

NextPair == NUpdateHash \/ NUpdateHashOther
SpecPair == Init /\ [][NextPair]_vars

\* Two bodies of the same variant agree on the fields that enter the hash.
SameHashFields(a, b) ==
    /\ a.kind = b.kind
    /\ a.round = b.round
    /\ IF a.kind = "Internal"
       THEN /\ a.label = b.label /\ a.label_bit_length = b.label_bit_length
            /\ a.leaf_node.hash = b.leaf_node.hash
            /\ a.left.hash = b.left.hash /\ a.right.hash = b.right.hash
       ELSE a.key = b.key /\ a.value.hash = b.value.hash

\* C11: hash determinism of update_hash: after update_hash an internal node's
\* hash is H(0x01, round, label_bit_length, label bytes, leaf_node.hash,
\* left.hash, right.hash) and a leaf's hash is H(0x00, round, key bytes,
\* value.hash); two bodies of the same variant that agree on those fields get
\* equal hashes, whatever their clean flags, previous hashes, cache_extra and
\* whether their pointers are resolved or hash-only.
C11_HashDeterminism ==
    /\ (op = "update_hash" /\ pre.kind = "Internal") =>
          node.hash = Digest(<<1>> \o BigEndian(pre.round, 8)
                             \o BigEndian(pre.label_bit_length, 2) \o pre.label
                             \o HashBytes(pre.leaf_node.hash)
                             \o HashBytes(pre.left.hash) \o HashBytes(pre.right.hash))
    /\ (op = "update_hash" /\ pre.kind = "Leaf") =>
          node.hash = Digest(<<0>> \o BigEndian(pre.round, 8) \o pre.key
                             \o HashBytes(pre.value.hash))
    /\ (op = "update_hash_other" /\ SameHashFields(pre, out.other)) =>
          out.other_after.hash = node.hash

\* Witness of C11: a clean internal node with a hash-only left pointer and a
\* dirty one with a resolved left pointer and another stored hash were hashed
\* to the same, new hash.
C11_Witness ==
    /\ op = "update_hash_other" /\ pre.kind = "Internal"
    /\ SameHashFields(pre, out.other)
    /\ pre.clean /\ ~out.other.clean
    /\ pre.hash # out.other.hash
    /\ pre.left.node = <<>> /\ out.other.left.node # <<>>
    /\ pre.left.clean /\ ~out.other.left.clean
    /\ out.other_after.hash = node.hash
    /\ node.hash # pre.hash /\ node.hash # out.other.hash

\* Witness of C11 for leaves: the value cells differ in cache_extra and clean.
C11_WitnessLeaf ==
    /\ op = "update_hash_other" /\ pre.kind = "Leaf"
    /\ SameHashFields(pre, out.other)
    /\ pre.clean # out.other.clean
    /\ pre.value.cache_extra # out.other.value.cache_extra
    /\ pre.value.clean # out.other.value.clean
    /\ out.other_after.hash = node.hash
    /\ node.hash # pre.hash

-----------------------------------------------------------------------------
(* Claims about the trailing bits of the keys split, merge and append_bit  *)
(* return (SpecKey).                                                        *)

\* key has ceil(n / 8) bytes and every bit at a position >= n is zero.
TrailingBitsZero(key, n) ==
    /\ Len(key) = Ceil8(n)
    /\ \A j \in n..((8 * Len(key)) - 1) : BitOf(key, j) = 0

\* C12: trailing-bit masking: for every buffer k of ceil(n/8) bytes, whatever
\* its bits at positions >= n, the prefix (length m) and the suffix (length
\* n - m) of split, the key of merge (length n + n2) and the key of
\* append_bit (length n + 1) have every bit at or beyond their declared
\* length equal to zero.
C12_TrailingBitsMasked ==
    /\ (op = "split" /\ ~out.split.panic) =>
          /\ TrailingBitsZero(out.split.prefix, out.m)
          /\ TrailingBitsZero(out.split.suffix, key_len - out.m)
    /\ (op = "merge_keys" /\ ~out.panic) =>
          TrailingBitsZero(out.key, key_len + k2_len)
    /\ (op = "append_bit" /\ ~out.appended.panic) =>
          TrailingBitsZero(out.appended.key, key_len + 1)

\* C12 on the inputs whose bits at positions >= their bit length are zero.
C12_HoldsForMaskedInputs ==
    /\ (op = "split" /\ ~out.split.panic /\ TrailingBitsZero(k, key_len)) =>
          /\ TrailingBitsZero(out.split.prefix, out.m)
          /\ TrailingBitsZero(out.split.suffix, key_len - out.m)
    /\ (op = "merge_keys" /\ ~out.panic
        /\ TrailingBitsZero(k, key_len) /\ TrailingBitsZero(k2, k2_len)) =>
          TrailingBitsZero(out.key, key_len + k2_len)
    /\ (op = "append_bit" /\ ~out.appended.panic /\ TrailingBitsZero(k, key_len)) =>
          TrailingBitsZero(out.appended.key, key_len + 1)

\* The prefix of split is masked whatever the input.
C12_PrefixMasked ==
    (op = "split" /\ ~out.split.panic) => TrailingBitsZero(out.split.prefix, out.m)

\* split, merge and append_bit do not panic on buffers of ceil(n/8) bytes.
C12_NoPanic ==
    /\ (op = "split" /\ out.m <= key_len) => ~out.split.panic
    /\ op = "merge_keys" => ~out.panic
    /\ op = "append_bit" => ~out.appended.panic

-----------------------------------------------------------------------------
(* SpecEq: == on two node bodies of the same variant, the node and a body  *)
(* that differs from it in at most one field and the clean flag.            *)

\* n with its clean flag flipped.
FlipClean(n) == [n EXCEPT !.clean = ~n.clean]

\* The bodies node is compared with.
EqOperands(n) ==
    LET content ==
            IF n.kind = "Internal"
            THEN {n}
                 \cup {[n EXCEPT !.label = lb.label, !.label_bit_length = lb.bits] :
                          lb \in Labels}
                 \cup {[n EXCEPT !.round = r] : r \in Rounds}
            ELSE {n}
                 \cup {[n EXCEPT !.key = key] : key \in LeafKeys}
                 \cup {[n EXCEPT !.round = r] : r \in Rounds}
                 \cup {[n EXCEPT !.value = v] : v \in ValCells}
        ptrs ==
            IF n.kind = "Internal"
            THEN {[n EXCEPT !.leaf_node = p] : p \in LeafPtrPool}
                 \cup {[n EXCEPT !.left = p] : p \in ChildPtrPool}
                 \cup {[n EXCEPT !.right = p] : p \in ChildPtrPool}
            ELSE {}
    IN content \cup {FlipClean(o) : o \in content} \cup ptrs
       \cup {[n EXCEPT !.hash = h] : h \in {ZeroHash, NodePreimageHash(n)}}

\* node == other
NEq ==
    /\ op = "init"
    /\ \E o \in EqOperands(node) : out' = [other |-> o, eq |-> NodeBoxEq(node, o)]
    /\ op' = "node_eq"
    /\ UNCHANGED <<node, pre, k, key_len, k2, k2_len>>

NextEq == NEq
SpecEq == Init /\ [][NextEq]_vars

\* C13: node-body equality respects content: two internal nodes that compare
\* equal with at least one of them dirty have the same round, the same label
\* and label_bit_length and pairwise-equal leaf_node, left and right
\* pointers; two leaves that compare equal with at least one dirty have the
\* same round, key and value.
C13_EqRespectsContent ==
    (op = "node_eq" /\ out.eq /\ (~node.clean \/ ~out.other.clean)) =>
        IF node.kind = "Internal"
        THEN /\ node.round = out.other.round
             /\ node.label = out.other.label
             /\ node.label_bit_length = out.other.label_bit_length
             /\ PtrEq(node.leaf_node, out.other.leaf_node)
             /\ PtrEq(node.left, out.other.left)
             /\ PtrEq(node.right, out.other.right)
        ELSE /\ node.round = out.other.round
             /\ node.key = out.other.key
             /\ ValEq(node.value, out.other.value)
             /\ node.value.value = out.other.value.value

\* C13 without the label and label_bit_length of internal nodes.
C13_HoldsApartFromLabel ==
    (op = "node_eq" /\ out.eq /\ (~node.clean \/ ~out.other.clean)) =>
        IF node.kind = "Internal"
        THEN /\ node.round = out.other.round
             /\ PtrEq(node.leaf_node, out.other.leaf_node)
             /\ PtrEq(node.left, out.other.left)
             /\ PtrEq(node.right, out.other.right)
        ELSE /\ node.round = out.other.round
             /\ node.key = out.other.key
             /\ ValEq(node.value, out.other.value)
             /\ node.value.value = out.other.value.value

-----------------------------------------------------------------------------
(* Claims about what validate writes (Spec).                                *)

\* C14: frame of validate: a validate that fails with DirtyPointers or
\* DirtyValue leaves every field of the node unchanged; a validate that
\* reaches the comparison (Ok or HashMismatch) changes only the hash field,
\* which then is the recomputed preimage hash, also on HashMismatch; validate
\* never changes the clean flag of the node, of its child pointers or of its
\* value cell.  validate on a value cell changes only the hash of the cell.
C14_ValidateFrame ==
    /\ op = "validate" =>
          /\ out.res.err \in {"DirtyPointers", "DirtyValue"} => node = pre
          /\ out.res.err \in {"Ok", "HashMismatch"} =>
                /\ node = [pre EXCEPT !.hash = node.hash]
                /\ node.hash = NodePreimageHash(pre)
          /\ node.clean = pre.clean
          /\ pre.kind = "Internal" =>
                /\ node.leaf_node.clean = pre.leaf_node.clean
                /\ node.left.clean = pre.left.clean
                /\ node.right.clean = pre.right.clean
          /\ pre.kind = "Leaf" => node.value.clean = pre.value.clean
    /\ op = "val_validate" =>
          /\ node = [pre EXCEPT !.value.hash = node.value.hash]
          /\ node.value.hash = ValueHash(pre.value.value)
          /\ node.clean = pre.clean /\ node.value.clean = pre.value.clean

\* Witness of C14: validate of a dirty leaf with a clean value cell and a
\* stale hash fails with HashMismatch and leaves the recomputed hash behind.
C14_Witness ==
    /\ op = "validate" /\ pre.kind = "Leaf"
    /\ ~pre.clean /\ pre.value.clean
    /\ out.res.err = "HashMismatch"
    /\ pre.hash # NodePreimageHash(pre)
    /\ node.hash = NodePreimageHash(pre) /\ node.hash # out.h
    /\ ~node.clean

\* Witness of C14 for DirtyPointers: nothing was written although the stored
\* hash is stale.
C14_WitnessDirty ==
    /\ op = "validate" /\ pre.kind = "Internal"
    /\ out.res.err = "DirtyPointers"
    /\ pre.hash # NodePreimageHash(pre)
    /\ node = pre

====
